---- MODULE Spec2Model ----
(* Model of src/server.js: the camera registry, the ffmpeg process map, the *)
(* per-camera WebSocket client sets, and the handlers that mutate them.    *)
(* Every HTTP handler and every process/socket callback is one atomic step *)
(* (Node's single-threaded event loop).                                    *)
EXTENDS Integers, Sequences, FiniteSets, TLC

\* ---------------------------------------------------------------- bounds
MaxCams == 2
MaxProcs == 2
MaxConns == 2
MaxChunks == 2
\* cameras + processes + sockets + chunks created in one run
MaxObjects == 6

CamIds == 1..MaxCams
NoCam == 0
NoProc == 0

\* ------------------------------------------------------------- variables
VARIABLES
    cameras,          \* Map id -> status      (server.js:17)
    ffmpegProcesses,  \* Map id -> process      (server.js:18)
    streamClients,    \* Map id -> Set of ws    (server.js:19)
    nextId,           \* next uuid to hand out  (server.js:31)
    procs,            \* every child process spawned so far
    conns,            \* every WebSocket accepted so far
    stream,           \* the process that emitted each chunk, in order
    listening,        \* the HTTP/WS endpoints accept requests
    exited,           \* process.exit(0) has run   (server.js:260)
    last,             \* the event handled by the last step
    resp,             \* the outcome reported by the last step
    effects           \* the ordered side effects of the last step

vars == <<cameras, ffmpegProcesses, streamClients, nextId, procs, conns,
          stream, listening, exited, last, resp, effects>>

\* --------------------------------------------------------------- helpers
Without(f, k) == [x \in (DOMAIN f) \ {k} |-> f[x]]

With(f, k, v) == [x \in (DOMAIN f) \cup {k} |-> IF x = k THEN v ELSE f[x]]

\* The program state the handlers read and write, as one record.
State == [cameras |-> cameras, ffmpegProcesses |-> ffmpegProcesses,
          streamClients |-> streamClients, nextId |-> nextId,
          procs |-> procs, conns |-> conns, stream |-> stream,
          listening |-> listening,
          resp |-> "none", effects |-> <<>>]

\* ffmpeg.kill('SIGTERM'): a running child starts terminating; it stays
\* alive until its exit is reported by the 'close' event.
Kill(s, p) ==
    [s EXCEPT !.procs[p].st = IF @ = "running" THEN "terminating" ELSE @,
              !.effects = Append(@, <<"kill", p>>)]

\* client.close(): an OPEN socket starts its closing handshake.
WsCloseAll(s, clients) ==
    [s EXCEPT !.conns = [c \in DOMAIN s.conns |->
                            IF c \in clients /\ s.conns[c].st = "open"
                            THEN [s.conns[c] EXCEPT !.st = "closing"]
                            ELSE s.conns[c]],
              !.effects = Append(@, <<"closeClients", clients>>)]

\* the "close all client connections" block of stopStream / on('close')
CloseClients(s, cameraId) ==
    IF cameraId \in DOMAIN s.streamClients
    THEN [WsCloseAll(s, s.streamClients[cameraId])
            EXCEPT !.streamClients = Without(s.streamClients, cameraId)]
    ELSE s

StopStream(s, cameraId) ==
    LET s1 == IF cameraId \in DOMAIN s.ffmpegProcesses
              THEN [Kill(s, s.ffmpegProcesses[cameraId])
                      EXCEPT !.ffmpegProcesses =
                                 Without(s.ffmpegProcesses, cameraId)]
              ELSE s
    IN  CloseClients(s1, cameraId)

\* spawn() either yields a running child, or a handle whose child never
\* ran (the failure arrives later as 'error' and 'close' events).
StartStream(s, cameraId, outcome) ==
    LET p == Len(s.procs) + 1
        child == [cam |-> cameraId,
                  st |-> IF outcome = "ok" THEN "running" ELSE "failed"]
    IN  [s EXCEPT !.procs = Append(@, child),
                  !.ffmpegProcesses = With(@, cameraId, p),
                  !.streamClients = With(@, cameraId, {}),
                  !.effects = Append(@, <<"spawn", p>>)]

\* ---------------------------------------------------------- HTTP handlers
CreateCamera(s, name, rtspUrl) ==
    IF name = "" \/ rtspUrl = ""
    THEN [s EXCEPT !.resp = "InvalidInput"]
    ELSE [s EXCEPT !.cameras = With(@, s.nextId, "offline"),
                   !.nextId = @ + 1,
                   !.resp = "Created"]

\* faulty variant: the delete handler forgets to stop the active stream
DeleteCamera_NoStop(s, id) ==
    IF id \notin DOMAIN s.cameras
    THEN [s EXCEPT !.resp = "NotFound"]
    ELSE [s EXCEPT !.cameras = Without(@, id),
                   !.effects = Append(@, <<"removeCamera", id>>),
                   !.resp = "Deleted"]

DeleteCamera(s, id) ==
    IF id \notin DOMAIN s.cameras
    THEN [s EXCEPT !.resp = "NotFound"]
    ELSE LET s1 == IF id \in DOMAIN s.ffmpegProcesses
                   THEN StopStream(s, id) ELSE s
         IN  [s1 EXCEPT !.cameras = Without(@, id),
                        !.effects = Append(@, <<"removeCamera", id>>),
                        !.resp = "Deleted"]

\* faulty variant: the start handler lacks the "already active" check
StartCamera_NoRunningCheck(s, id, outcome) ==
    IF id \notin DOMAIN s.cameras
    THEN [s EXCEPT !.resp = "NotFound"]
    ELSE IF outcome = "throw"
    THEN [s EXCEPT !.resp = "StartFailure"]
    ELSE [StartStream(s, id, outcome)
            EXCEPT !.cameras[id] = "live", !.resp = "Started"]

StartCamera(s, id, outcome) ==
    IF id \notin DOMAIN s.cameras
    THEN [s EXCEPT !.resp = "NotFound"]
    ELSE IF id \in DOMAIN s.ffmpegProcesses
    THEN [s EXCEPT !.resp = "AlreadyRunning"]
    ELSE IF outcome = "throw"
    THEN [s EXCEPT !.resp = "StartFailure"]
    ELSE [StartStream(s, id, outcome)
            EXCEPT !.cameras[id] = "live", !.resp = "Started"]

\* faulty variant: the stop handler lacks the "not active" check
StopCamera_NoRunningCheck(s, id) ==
    IF id \notin DOMAIN s.cameras
    THEN [s EXCEPT !.resp = "NotFound"]
    ELSE [StopStream(s, id)
            EXCEPT !.cameras[id] = "offline", !.resp = "Stopped"]

\* faulty variant: the stop handler leaves the status untouched
StopCamera_KeepsStatus(s, id) ==
    IF id \notin DOMAIN s.cameras
    THEN [s EXCEPT !.resp = "NotFound"]
    ELSE IF id \notin DOMAIN s.ffmpegProcesses
    THEN [s EXCEPT !.resp = "NotRunning"]
    ELSE [StopStream(s, id) EXCEPT !.resp = "Stopped"]

StopCamera(s, id) ==
    IF id \notin DOMAIN s.cameras
    THEN [s EXCEPT !.resp = "NotFound"]
    ELSE IF id \notin DOMAIN s.ffmpegProcesses
    THEN [s EXCEPT !.resp = "NotRunning"]
    ELSE [StopStream(s, id)
            EXCEPT !.cameras[id] = "offline", !.resp = "Stopped"]

\* ------------------------------------------------------ process callbacks
\* faulty variant: the broadcast loop misses the first client of the set
OnData_SkipsOne(s, p) ==
    LET cameraId == s.procs[p].cam
        n == Len(s.stream) + 1
        all == IF cameraId \in DOMAIN s.streamClients
               THEN s.streamClients[cameraId] ELSE {}
        clients == {c \in all : \E d \in all : d < c}
    IN  [s EXCEPT !.stream = Append(@, p),
                  !.conns = [c \in DOMAIN s.conns |->
                               IF c \in clients /\ s.conns[c].st = "open"
                               THEN [s.conns[c] EXCEPT
                                       !.recv = Append(@, n)]
                               ELSE s.conns[c]],
                  !.resp = "data"]

\* faulty variant: the broadcast goes to the viewers of every camera
OnData_AllCameras(s, p) ==
    LET n == Len(s.stream) + 1
        clients == UNION {s.streamClients[k] : k \in DOMAIN s.streamClients}
    IN  [s EXCEPT !.stream = Append(@, p),
                  !.conns = [c \in DOMAIN s.conns |->
                               IF c \in clients /\ s.conns[c].st = "open"
                               THEN [s.conns[c] EXCEPT
                                       !.recv = Append(@, n)]
                               ELSE s.conns[c]],
                  !.resp = "data"]

\* faulty variant: the broadcast loop ignores readyState
OnData_IgnoresState(s, p) ==
    LET cameraId == s.procs[p].cam
        n == Len(s.stream) + 1
        clients == IF cameraId \in DOMAIN s.streamClients
                   THEN s.streamClients[cameraId] ELSE {}
    IN  [s EXCEPT !.stream = Append(@, p),
                  !.conns = [c \in DOMAIN s.conns |->
                               IF c \in clients
                               THEN [s.conns[c] EXCEPT
                                       !.recv = Append(@, n)]
                               ELSE s.conns[c]],
                  !.resp = "data"]

\* ffmpeg.stdout.on('data'): process p emits the n-th chunk of the run
OnData(s, p) ==
    LET cameraId == s.procs[p].cam
        n == Len(s.stream) + 1
        clients == IF cameraId \in DOMAIN s.streamClients
                   THEN s.streamClients[cameraId] ELSE {}
    IN  [s EXCEPT !.stream = Append(@, p),
                  !.conns = [c \in DOMAIN s.conns |->
                               IF c \in clients /\ s.conns[c].st = "open"
                               THEN [s.conns[c] EXCEPT
                                       !.recv = Append(@, n)]
                               ELSE s.conns[c]],
                  !.resp = "data"]

\* faulty variant: the exit handler leaves the viewers connected
OnClose_KeepsClients(s, p) ==
    LET cameraId == s.procs[p].cam
        s1 == [s EXCEPT !.procs[p].st = "exited",
                        !.ffmpegProcesses = Without(@, cameraId)]
        s2 == IF cameraId \in DOMAIN s1.cameras
              THEN [s1 EXCEPT !.cameras[cameraId] = "offline"]
              ELSE s1
    IN  [s2 EXCEPT !.resp = "closed"]

\* ffmpeg.on('close')
OnClose(s, p) ==
    LET cameraId == s.procs[p].cam
        s1 == [s EXCEPT !.procs[p].st = "exited",
                        !.ffmpegProcesses = Without(@, cameraId)]
        s2 == IF cameraId \in DOMAIN s1.cameras
              THEN [s1 EXCEPT !.cameras[cameraId] = "offline"]
              ELSE s1
    IN  [CloseClients(s2, cameraId) EXCEPT !.resp = "closed"]

\* ---------------------------------------------------- WebSocket callbacks
\* a socket the server holds no reference to any more
Gone == [cam |-> NoCam, st |-> "closed", regProc |-> NoProc, joined |-> 0,
         recv |-> <<>>]

\* faulty variant: the connection handler registers without a lookup
OnConnection_NoLookup(s, cameraId) ==
    LET c == Len(s.conns) + 1
        p == IF cameraId \in DOMAIN s.ffmpegProcesses
             THEN s.ffmpegProcesses[cameraId] ELSE NoProc
        ws == [cam |-> cameraId, st |-> "open", regProc |-> p,
               joined |-> Len(s.stream), recv |-> <<>>]
        sets == IF cameraId \notin DOMAIN s.streamClients
                THEN With(s.streamClients, cameraId, {})
                ELSE s.streamClients
    IN  [s EXCEPT !.conns = Append(@, ws),
                  !.streamClients = [sets EXCEPT ![cameraId] = @ \cup {c}],
                  !.resp = "Subscribed"]

\* wss.on('connection')
OnConnection(s, cameraId) ==
    LET c == Len(s.conns) + 1
        known == cameraId # NoCam /\ cameraId \in DOMAIN s.cameras
        p == IF known /\ cameraId \in DOMAIN s.ffmpegProcesses
             THEN s.ffmpegProcesses[cameraId] ELSE NoProc
        ws == [cam |-> cameraId, st |-> "open", regProc |-> p,
               joined |-> Len(s.stream), recv |-> <<>>]
        refused == [Gone EXCEPT !.st = "rejected"]
        sets == IF known /\ cameraId \notin DOMAIN s.streamClients
                THEN With(s.streamClients, cameraId, {})
                ELSE s.streamClients
    IN  IF known
        THEN [s EXCEPT !.conns = Append(@, ws),
                       !.streamClients =
                           [sets EXCEPT ![cameraId] = @ \cup {c}],
                       !.resp = "Subscribed"]
        ELSE [s EXCEPT !.conns = Append(@, refused),
                       !.resp = "NotFound"]

\* the peer closes its end of an open socket
PeerClose(s, c) ==
    [s EXCEPT !.conns[c].st = "closing", !.resp = "peerClose"]

\* ws.on('close'), registered only for accepted connections
OnWsClose(s, c) ==
    LET cameraId == s.conns[c].cam
        s1 == [s EXCEPT !.conns[c] = Gone, !.resp = "wsClosed"]
    IN  IF cameraId \in DOMAIN s1.streamClients
        THEN [s1 EXCEPT !.streamClients[cameraId] = @ \ {c}]
        ELSE s1

\* ---------------------------------------------------------------- shutdown
RECURSIVE StopAll(_, _)
StopAll(s, ids) ==
    IF ids = {} THEN s
    ELSE LET id == CHOOSE x \in ids : \A y \in ids : x <= y
         IN  StopAll(StopStream(s, id), ids \ {id})

\* faulty variant: the shutdown loop stops after the first stream
GracefulShutdown_StopsOne(s) ==
    LET ids == DOMAIN s.ffmpegProcesses
        s1 == IF ids = {} THEN s
              ELSE StopStream(s, CHOOSE x \in ids : \A y \in ids : x <= y)
    IN  [s1 EXCEPT !.listening = FALSE,
                   !.effects = Append(@, <<"closeEndpoints", 0>>),
                   !.resp = "shutdown"]

GracefulShutdown(s) ==
    [StopAll(s, DOMAIN s.ffmpegProcesses)
        EXCEPT !.listening = FALSE,
               !.effects = Append(@, <<"closeEndpoints", 0>>),
               !.resp = "shutdown"]

\* ------------------------------------------------------------------ steps
Apply(t, ev) ==
    /\ cameras' = t.cameras
    /\ ffmpegProcesses' = t.ffmpegProcesses
    /\ streamClients' = t.streamClients
    /\ nextId' = t.nextId
    /\ procs' = t.procs
    /\ conns' = t.conns
    /\ stream' = t.stream
    /\ listening' = t.listening
    /\ exited' = exited
    /\ resp' = t.resp
    /\ effects' = t.effects
    /\ last' = ev

Init ==
    /\ cameras = <<>>
    /\ ffmpegProcesses = <<>>
    /\ streamClients = <<>>
    /\ nextId = 1
    /\ procs = <<>>
    /\ conns = <<>>
    /\ stream = <<>>
    /\ listening = TRUE
    /\ exited = FALSE
    /\ last = <<"init", 0>>
    /\ resp = "none"
    /\ effects = <<>>

\* everything the run has created so far
Objects == (nextId - 1) + Len(procs) + Len(conns) + Len(stream)

Create ==
    /\ listening
    /\ nextId <= MaxCams
    /\ Objects < MaxObjects
    /\ \E name \in {"", "Door"}, rtspUrl \in {"", "rtsp://x"} :
          Apply(CreateCamera(State, name, rtspUrl), <<"create", nextId>>)

Delete ==
    /\ listening
    /\ \E id \in CamIds : Apply(DeleteCamera(State, id), <<"delete", id>>)

Start ==
    /\ listening
    /\ Len(procs) < MaxProcs
    /\ Objects < MaxObjects
    /\ \E id \in CamIds, outcome \in {"ok", "fail", "throw"} :
          Apply(StartCamera(State, id, outcome), <<"start", id>>)

Stop ==
    /\ listening
    /\ \E id \in CamIds : Apply(StopCamera(State, id), <<"stop", id>>)

Data ==
    \E p \in DOMAIN procs :
        /\ ~exited
        /\ procs[p].st \in {"running", "terminating"}
        /\ Len(stream) < MaxChunks
        /\ Objects < MaxObjects
        /\ Apply(OnData(State, p), <<"data", p>>)

Close ==
    \E p \in DOMAIN procs :
        /\ ~exited
        /\ procs[p].st \in {"running", "terminating", "failed"}
        /\ Apply(OnClose(State, p), <<"close", p>>)

Connect ==
    /\ listening
    /\ Len(conns) < MaxConns
    /\ Objects < MaxObjects
    /\ \E cameraId \in CamIds \cup {NoCam} :
          Apply(OnConnection(State, cameraId), <<"connect", cameraId>>)

Disconnect ==
    \E c \in DOMAIN conns :
        /\ ~exited
        /\ conns[c].st = "open"
        /\ Apply(PeerClose(State, c), <<"peerClose", c>>)

WsClose ==
    \E c \in DOMAIN conns :
        /\ ~exited
        /\ conns[c].st = "closing"
        /\ Apply(OnWsClose(State, c), <<"wsClose", c>>)

Shutdown ==
    /\ listening
    /\ Apply(GracefulShutdown(State), <<"shutdown", 0>>)

\* the callback of server.close(): the HTTP server has stopped listening
\* and its last connection (upgraded sockets included) has ended; nothing
\* in it looks at the ffmpeg children.
Exit ==
    /\ ~listening
    /\ ~exited
    /\ \A c \in DOMAIN conns : conns[c].st \in {"closed", "rejected"}
    /\ exited' = TRUE
    /\ last' = <<"exit", 0>>
    /\ resp' = "exit"
    /\ effects' = <<>>
    /\ UNCHANGED <<cameras, ffmpegProcesses, streamClients, nextId, procs,
                   conns, stream, listening>>

Next ==
    \/ Create
    \/ Delete
    \/ Start
    \/ Stop
    \/ Data
    \/ Close
    \/ Connect
    \/ Disconnect
    \/ WsClose
    \/ Shutdown
    \/ Exit

Spec == Init /\ [][Next]_vars

\* ------------------------------------------------------------ type sanity
TypeOK ==
    /\ DOMAIN cameras \subseteq CamIds
    /\ \A id \in DOMAIN cameras : cameras[id] \in {"offline", "live"}
    /\ DOMAIN ffmpegProcesses \subseteq CamIds
    /\ \A id \in DOMAIN ffmpegProcesses :
          /\ ffmpegProcesses[id] \in DOMAIN procs
          /\ procs[ffmpegProcesses[id]].cam = id
          /\ procs[ffmpegProcesses[id]].st # "exited"
    /\ \A id \in DOMAIN streamClients : streamClients[id] \subseteq DOMAIN conns
    /\ Len(procs) <= MaxProcs
    /\ Len(conns) <= MaxConns
    /\ exited => ~listening

\* ------------------------------------------------------------ vocabulary
RunningProcs(id) ==
    {p \in DOMAIN procs :
        procs[p].cam = id /\ procs[p].st \in {"running", "terminating"}}

Received(c) == {conns[c].recv[i] : i \in 1..Len(conns[c].recv)}

\* position of the first effect with the given label, 0 if there is none
Pos(es, label) ==
    IF \E i \in 1..Len(es) : es[i][1] = label
    THEN CHOOSE i \in 1..Len(es) :
            es[i][1] = label /\ \A j \in 1..(i - 1) : es[j][1] # label
    ELSE 0

\* the registry, active-stream and subscriber part of a state
Core(s) == [cameras |-> s.cameras,
            ffmpegProcesses |-> s.ffmpegProcesses,
            streamClients |-> s.streamClients,
            sockets |-> [c \in DOMAIN s.conns |-> s.conns[c].st]]

\* ------------------------------------------------------------------- C1
\* C1: while the server handles create/start/stop/delete/exit/connect/
\* disconnect events, a registered camera is 'live' exactly when
\* ffmpegProcesses holds an entry for its id.
C1_LiveIffEntry ==
    listening =>
        \A id \in DOMAIN cameras :
            (cameras[id] = "live") <=> (id \in DOMAIN ffmpegProcesses)

\* a camera that is live again after an earlier stream of it has ended
C1_Witness ==
    /\ listening
    /\ \E id \in DOMAIN cameras :
          /\ cameras[id] = "live"
          /\ id \in DOMAIN ffmpegProcesses
          /\ \E p \in DOMAIN procs :
                procs[p].cam = id /\ procs[p].st = "exited"

\* ------------------------------------------------------------------- C2
\* C2: for every camera id at most one spawned process has not yet
\* delivered its exit event.
C2_AtMostOneProcess ==
    \A id \in CamIds : Cardinality(RunningProcs(id)) <= 1

\* ------------------------------------------------------------------- C3
\* C3: a registered camera is never 'live' without a running process of
\* its own, and never 'offline' while a process spawned for it still runs.
C3_StatusMatchesProcess ==
    \A id \in DOMAIN cameras :
        /\ cameras[id] = "live" => RunningProcs(id) # {}
        /\ cameras[id] = "offline" => RunningProcs(id) = {}

\* ------------------------------------------------------------------- C4
\* C4: a viewer accepted while its camera was offline, and still open, is
\* in the camera's subscriber set once the camera is live, and has been
\* sent every chunk of the camera's process.
C4_IdleViewerServedAfterStart ==
    \A c \in DOMAIN conns :
        LET id == conns[c].cam IN
        (/\ conns[c].st = "open"
         /\ conns[c].regProc = NoProc
         /\ id \in DOMAIN cameras
         /\ cameras[id] = "live"
         /\ id \in DOMAIN ffmpegProcesses)
        => /\ id \in DOMAIN streamClients
           /\ c \in streamClients[id]
           /\ \A n \in 1..Len(stream) :
                 stream[n] = ffmpegProcesses[id] => n \in Received(c)

\* ------------------------------------------------------------------- C5
\* C5: every viewer receives chunks in emission order, and an open viewer
\* that subscribed to a live camera has received every chunk its camera's
\* process emitted since it subscribed.
C5_FanOutInOrder ==
    \A c \in DOMAIN conns :
        LET r == conns[c].recv IN
        /\ \A i, j \in 1..Len(r) : i < j => r[i] < r[j]
        /\ (conns[c].st = "open" /\ conns[c].regProc # NoProc)
           => \A n \in 1..Len(stream) :
                 (n > conns[c].joined /\ stream[n] = conns[c].regProc)
                 => n \in Received(c)

\* two open viewers of one live camera that both got two chunks
C5_Witness ==
    \E c, d \in DOMAIN conns :
        /\ c # d
        /\ conns[c].st = "open" /\ conns[d].st = "open"
        /\ conns[c].regProc # NoProc
        /\ conns[c].regProc = conns[d].regProc
        /\ Len(conns[c].recv) = 2 /\ conns[d].recv = conns[c].recv
        /\ \A n \in 1..Len(stream) : stream[n] = conns[c].regProc

\* ------------------------------------------------------------------- C6
\* C6: deleting a camera that has an active-stream entry signals its
\* process before the record is removed, closes every connection of its
\* subscriber set and removes the set.
C6_DeleteStopsStream ==
    [][\A id \in CamIds :
          (/\ last' = <<"delete", id>>
           /\ resp' = "Deleted"
           /\ id \in DOMAIN ffmpegProcesses)
          => /\ Pos(effects', "kill") > 0
             /\ Pos(effects', "kill") < Pos(effects', "removeCamera")
             /\ procs[ffmpegProcesses[id]].st = "running"
                   => procs'[ffmpegProcesses[id]].st = "terminating"
             /\ id \in DOMAIN streamClients
             /\ \A c \in streamClients[id] : conns'[c].st # "open"
             /\ id \notin DOMAIN streamClients'
             /\ id \notin DOMAIN cameras']_vars

\* a delete that signalled a process and closed a non-empty viewer set
C6_Witness ==
    /\ last[1] = "delete"
    /\ resp = "Deleted"
    /\ Pos(effects, "kill") > 0
    /\ procs[effects[Pos(effects, "kill")][2]].st = "terminating"
    /\ Pos(effects, "closeClients") > 0
    /\ effects[Pos(effects, "closeClients")][2] # {}

\* ------------------------------------------------------------------- C7
\* C7: after any successful delete, every viewer of the deleted camera is
\* closed and no subscriber set for the id remains.
C7_DeleteClosesViewers ==
    \A id \in CamIds :
        (last = <<"delete", id>> /\ resp = "Deleted")
        => /\ id \notin DOMAIN streamClients
           /\ \A c \in DOMAIN conns :
                 conns[c].cam = id => conns[c].st # "open"

\* ------------------------------------------------------------------- C8
\* C8: when the un-stopped process of a live camera terminates, the exit
\* handler leaves the camera offline, without entry, with its viewers
\* closed and its set removed: the same registry, active-stream and
\* subscriber state as a stop followed by that exit.
C8_CrashLikeStop ==
    [][\A p \in DOMAIN procs :
          LET id == procs[p].cam IN
          (/\ last' = <<"close", p>>
           /\ procs[p].st = "running"
           /\ id \in DOMAIN cameras
           /\ cameras[id] = "live"
           /\ id \in DOMAIN ffmpegProcesses
           /\ ffmpegProcesses[id] = p)
          => /\ cameras'[id] = "offline"
             /\ id \notin DOMAIN ffmpegProcesses'
             /\ id \in DOMAIN streamClients
             /\ \A c \in streamClients[id] : conns'[c].st # "open"
             /\ id \notin DOMAIN streamClients'
             /\ Core(State') = Core(OnClose(StopCamera(State, id), p))]_vars

\* a process that streamed to a viewer and exited while that viewer was
\* still subscribed (a stop would have removed the viewer's set)
C8_Witness ==
    /\ last[1] = "close"
    /\ LET p == last[2] IN
       /\ procs[p].st = "exited"
       /\ \E n \in 1..Len(stream) : stream[n] = p
       /\ procs[p].cam \in DOMAIN cameras
       /\ cameras[procs[p].cam] = "offline"
       /\ \E c \in DOMAIN conns :
             /\ conns[c].regProc = p
             /\ conns[c].st = "closing"
             /\ Pos(effects, "closeClients") > 0
             /\ c \in effects[Pos(effects, "closeClients")][2]

\* ------------------------------------------------------------------- C9
\* C9: a successful stop leaves the camera's status, the active-stream
\* entry and the subscriber set as they were.
C9_StopOnlySignals ==
    [][\A id \in CamIds :
          (last' = <<"stop", id>> /\ resp' = "Stopped")
          => /\ cameras' = cameras
             /\ ffmpegProcesses' = ffmpegProcesses
             /\ streamClients' = streamClients]_vars

\* ------------------------------------------------------------------ C10
\* C10: start on a camera that has an active-stream entry answers
\* AlreadyRunning, spawns nothing and changes no entry, record or set.
C10_StartAlreadyRunning ==
    [][\A id \in CamIds :
          (/\ last' = <<"start", id>>
           /\ id \in DOMAIN cameras
           /\ id \in DOMAIN ffmpegProcesses)
          => /\ resp' = "AlreadyRunning"
             /\ effects' = <<>>
             /\ procs' = procs
             /\ ffmpegProcesses' = ffmpegProcesses
             /\ cameras' = cameras
             /\ streamClients' = streamClients
             /\ conns' = conns]_vars

\* a start that was refused while viewers were subscribed
C10_Witness ==
    /\ last[1] = "start"
    /\ resp = "AlreadyRunning"
    /\ last[2] \in DOMAIN streamClients
    /\ streamClients[last[2]] # {}

\* ------------------------------------------------------------------ C11
\* C11: stop on a registered camera without an active-stream entry
\* answers NotRunning, signals nothing and changes no status, entry,
\* subscriber set or socket.
C11_StopNotRunning ==
    [][\A id \in CamIds :
          (/\ last' = <<"stop", id>>
           /\ id \in DOMAIN cameras
           /\ id \notin DOMAIN ffmpegProcesses)
          => /\ resp' = "NotRunning"
             /\ effects' = <<>>
             /\ cameras' = cameras
             /\ ffmpegProcesses' = ffmpegProcesses
             /\ streamClients' = streamClients
             /\ procs' = procs
             /\ conns' = conns]_vars

\* a refused stop while a viewer idles on the camera
C11_Witness ==
    /\ last[1] = "stop"
    /\ resp = "NotRunning"
    /\ last[2] \in DOMAIN streamClients
    /\ \E c \in streamClients[last[2]] : conns[c].st = "open"

\* ------------------------------------------------------------------ C12
\* C12: delete, start, stop and connect on an id that is not registered
\* answer NotFound; no record, entry, set or process changes, and the
\* refused socket is closed at once and is in no subscriber set.
Unknown(id) == id = NoCam \/ id \notin DOMAIN cameras

C12_UnknownIdNoMutation ==
    [][\A id \in CamIds \cup {NoCam} :
          /\ (/\ last'[1] \in {"delete", "start", "stop"}
              /\ last'[2] = id
              /\ Unknown(id))
             => /\ resp' = "NotFound"
                /\ effects' = <<>>
                /\ cameras' = cameras
                /\ ffmpegProcesses' = ffmpegProcesses
                /\ streamClients' = streamClients
                /\ procs' = procs
                /\ conns' = conns
          /\ (last' = <<"connect", id>> /\ Unknown(id))
             => /\ resp' = "NotFound"
                /\ cameras' = cameras
                /\ ffmpegProcesses' = ffmpegProcesses
                /\ streamClients' = streamClients
                /\ procs' = procs
                /\ Len(conns') = Len(conns) + 1
                /\ \A c \in DOMAIN conns : conns'[c] = conns[c]
                /\ conns'[Len(conns')].st = "rejected"
                /\ \A k \in DOMAIN streamClients' :
                      Len(conns') \notin streamClients'[k]]_vars

\* a socket refused for a deleted camera whose old subscriber set remains
C12_Witness ==
    /\ last[1] = "connect"
    /\ resp = "NotFound"
    /\ last[2] \in DOMAIN streamClients
    /\ conns[Len(conns)].st = "rejected"

\* ------------------------------------------------------------------ C13
\* C13: when the process of a start cannot be spawned, the start answers
\* StartFailure, leaves no active-stream entry and the camera is offline.
SpawnFailed ==
    /\ last[1] = "start"
    /\ \/ resp = "StartFailure"
       \/ /\ Pos(effects, "spawn") > 0
          /\ procs[effects[Pos(effects, "spawn")][2]].st = "failed"

C13_SpawnFailureLeavesNothing ==
    SpawnFailed
    => /\ resp = "StartFailure"
       /\ last[2] \notin DOMAIN ffmpegProcesses
       /\ cameras[last[2]] = "offline"

\* ------------------------------------------------------------------ C14
\* C14: on shutdown the process of every camera that has an active-stream
\* entry is sent the termination signal, before the endpoints are closed.
C14_ShutdownStopsAll ==
    [][last' = <<"shutdown", 0>>
       => /\ Pos(effects', "closeEndpoints") > 0
          /\ ~listening'
          /\ \A id \in DOMAIN ffmpegProcesses :
                LET p == ffmpegProcesses[id] IN
                /\ \E i \in 1..Len(effects') :
                      /\ effects'[i] = <<"kill", p>>
                      /\ i < Pos(effects', "closeEndpoints")
                /\ procs[p].st = "running" => procs'[p].st = "terminating"]_vars

\* a shutdown that signalled the processes of two cameras
C14_Witness ==
    /\ last[1] = "shutdown"
    /\ \E i, j \in 1..Len(effects) :
          /\ i # j
          /\ effects[i][1] = "kill" /\ effects[j][1] = "kill"
          /\ procs[effects[i][2]].st = "terminating"
          /\ procs[effects[j][2]].st = "terminating"
          /\ procs[effects[i][2]].cam # procs[effects[j][2]].cam

\* ------------------------------------------------------------------ C15
\* C15: a viewer that has disconnected is sent no later chunk, its close
\* handler takes it (and only it) out of its camera's subscriber set, and
\* the open viewers left in the set are sent every later chunk.
C15_DisconnectIsLocal ==
    [][/\ \A p \in DOMAIN procs :
             last' = <<"data", p>>
             => LET id == procs[p].cam IN
                \A c \in DOMAIN conns :
                   /\ conns[c].st # "open" => conns'[c] = conns[c]
                   /\ (/\ conns[c].st = "open"
                       /\ id \in DOMAIN streamClients
                       /\ c \in streamClients[id])
                      => conns'[c].recv = Append(conns[c].recv, Len(stream'))
       /\ \A c \in DOMAIN conns :
             (last' = <<"wsClose", c>> /\ conns[c].st = "closing")
             => /\ \A id \in DOMAIN streamClients' :
                      c \notin streamClients'[id]
                /\ DOMAIN streamClients' = DOMAIN streamClients
                /\ \A id \in DOMAIN streamClients :
                      streamClients'[id] = streamClients[id] \ {c}
                /\ \A d \in DOMAIN conns : d # c => conns'[d] = conns[d]]_vars

\* mid-stream: one of two viewers left after the first chunk, the other
\* one got the second chunk as well
C15_Witness ==
    /\ last[1] = "data"
    /\ \E c, d \in DOMAIN conns :
          /\ conns[c].st = "open" /\ conns[d].st = "closing"
          /\ conns[c].cam = conns[d].cam
          /\ conns[c].regProc = last[2] /\ conns[d].regProc = last[2]
          /\ conns[c].recv = <<1, 2>>
          /\ conns[d].recv = <<1>>

\* ------------------------------------------------------------------ C16
\* C16: a broadcast skips a set member that is not OPEN, sends the chunk
\* to every OPEN member, and removes the skipped member from the set.
C16_BroadcastDropsUnwritable ==
    [][\A p \in DOMAIN procs :
          (last' = <<"data", p>> /\ procs[p].cam \in DOMAIN streamClients)
          => LET id == procs[p].cam IN
             \A c \in streamClients[id] :
                IF conns[c].st = "open"
                THEN conns'[c].recv = Append(conns[c].recv, Len(stream'))
                ELSE /\ conns'[c].recv = conns[c].recv
                     /\ c \notin streamClients'[id]]_vars

\* ------------------------------------------------------------------ C17
\* C17: the server process has not exited while a conversion process it
\* spawned is still alive.
C17_ExitWaitsForProcesses ==
    exited => \A p \in DOMAIN procs :
                 procs[p].st \notin {"running", "terminating"}

\* ------------------------------------------------------------------ C18
\* C18: every process that runs is the one its camera's active-stream
\* entry refers to, or has been sent the termination signal.
C18_NoUnreachableProcess ==
    \A p \in DOMAIN procs :
        procs[p].st = "running"
        => /\ procs[p].cam \in DOMAIN ffmpegProcesses
           /\ ffmpegProcesses[procs[p].cam] = p

\* ------------------------------------------------------------------ C19
\* C19: the exit event of a process that is not the one in its camera's
\* active-stream entry leaves that entry, the camera's status and the
\* viewers of the entry's stream as they are.
C19_LateExitIsLocal ==
    [][\A p \in DOMAIN procs :
          LET id == procs[p].cam IN
          (/\ last' = <<"close", p>>
           /\ id \in DOMAIN ffmpegProcesses
           /\ ffmpegProcesses[id] # p)
          => /\ ffmpegProcesses' = ffmpegProcesses
             /\ cameras' = cameras
             /\ \A c \in DOMAIN conns :
                   conns[c].regProc = ffmpegProcesses[id]
                   => conns'[c] = conns[c]]_vars

\* ------------------------------------------------------------------ C20
\* C20: a socket is in at most one subscriber set, the set of the camera
\* it connected with, and every chunk it was sent came from a process
\* spawned for that camera.
C20_NoCrossCameraDelivery ==
    \A c \in DOMAIN conns :
        /\ \A id \in DOMAIN streamClients :
              c \in streamClients[id] => conns[c].cam = id
        /\ Cardinality({id \in DOMAIN streamClients :
                           c \in streamClients[id]}) <= 1
        /\ \A n \in Received(c) : procs[stream[n]].cam = conns[c].cam

\* two cameras with one open viewer each: a chunk of the first camera's
\* process reached its viewer and not the viewer of the other camera
C20_Witness ==
    \E c, d \in DOMAIN conns :
        /\ conns[c].st = "open" /\ conns[d].st = "open"
        /\ conns[c].cam # conns[d].cam
        /\ conns[c].cam \in DOMAIN streamClients
        /\ conns[d].cam \in DOMAIN streamClients
        /\ c \in streamClients[conns[c].cam]
        /\ d \in streamClients[conns[d].cam]
        /\ conns[c].recv # <<>>
        /\ conns[d].recv = <<>>
        /\ conns[d].joined = 0
====
